---- MODULE Spec2Model ----
(***************************************************************************)
(* Model of src/sync_debs_to_gemfury/deb_reversion.py: main() re-versions  *)
(* a Debian archive in place (extract, edit DEBIAN/control, update the     *)
(* changelog and DEBIAN/md5sums, rebuild, move over the input path).       *)
(*                                                                         *)
(* Texts are sequences of lexemes.  A lexeme is a TLA+ string standing for *)
(* one character ("1", "\\", " ", "\n") or for a fixed run of characters   *)
(* that the regular expressions of the program can only match as a whole   *)
(* ("Package: ", "usr/share/doc", an MD5 hex digest).                      *)
(***************************************************************************)
EXTENDS Integers, Sequences, FiniteSets, TLC

(***************************************************************************)
(* Bounds of the model.                                                    *)
(***************************************************************************)
MaxVersionLen == 2      \* longest new_version, in lexemes
MaxManifestLines == 2   \* most lines of DEBIAN/md5sums
MaxRuns == 2            \* runs of main() on the same archive path

NL == "\n"
SP == " "
BS == "\\"
SOH == "\\x01"          \* the character chr(1)

(***************************************************************************)
(* Sequence helpers.                                                       *)
(***************************************************************************)
RECURSIVE Flatten(_)
Flatten(ss) == IF ss = <<>> THEN <<>> ELSE Head(ss) \o Flatten(Tail(ss))

RECURSIVE SeqsUpTo(_, _)
SeqsUpTo(S, n) ==
    IF n = 0 THEN {<<>>}
    ELSE LET shorter == SeqsUpTo(S, n - 1)
         IN  shorter \cup {Append(s, x) : s \in shorter, x \in S}

\* The lines of a text, as Python's re sees them under re.MULTILINE: a line
\* starts at the beginning of the text and after every "\n".
RECURSIVE SplitLines(_, _)
SplitLines(text, cur) ==
    IF text = <<>> THEN <<cur>>
    ELSE IF Head(text) = NL THEN <<cur>> \o SplitLines(Tail(text), <<>>)
    ELSE SplitLines(Tail(text), Append(cur, Head(text)))

Lines(text) == SplitLines(text, <<>>)

(***************************************************************************)
(* Python's re module, as far as the three patterns of the program use it. *)
(* A compiled pattern is a sequence of items                               *)
(*   [cls |-> "bol" | "eol" | "lit" | "dot" | "notsp", c |-> lexeme,       *)
(*    q |-> "1" | "*" | "+" | "++"]                                        *)
(* where "dot" is `.` (anything but a newline), "notsp" is `[^ ]` and q is *)
(* the quantifier ("++" is the possessive one of Python 3.11).             *)
(***************************************************************************)
Lit(c) == [cls |-> "lit", c |-> c, q |-> "1"]
Bol == [cls |-> "bol", c |-> "", q |-> "1"]
Eol == [cls |-> "eol", c |-> "", q |-> "1"]
Rep(item, q) == [item EXCEPT !.q = q]

ItemMatches(item, ch) ==
    CASE item.cls = "lit" -> ch = item.c
      [] item.cls = "dot" -> ch # NL
      [] item.cls = "notsp" -> ch # SP
      [] OTHER -> FALSE

\* Length of the longest run of lexemes from pos on that item matches.
RECURSIVE RunLen(_, _, _)
RunLen(item, text, pos) ==
    IF pos <= Len(text) /\ ItemMatches(item, text[pos])
    THEN 1 + RunLen(item, text, pos + 1)
    ELSE 0

\* Backtracking match of items[idx..] at pos: the position after the match
\* the re engine finds first (greedy quantifiers try the longest run first),
\* or -1 when there is none.
RECURSIVE MatchAt(_, _, _, _), TryRep(_, _, _, _, _, _)
MatchAt(items, idx, text, pos) ==
    IF idx > Len(items) THEN pos
    ELSE LET it == items[idx] IN
      CASE it.cls = "bol" ->
             IF pos = 1 \/ text[pos - 1] = NL
             THEN MatchAt(items, idx + 1, text, pos) ELSE -1
        [] it.cls = "eol" ->
             IF pos = Len(text) + 1 \/ text[pos] = NL
             THEN MatchAt(items, idx + 1, text, pos) ELSE -1
        [] it.q = "1" ->
             IF pos <= Len(text) /\ ItemMatches(it, text[pos])
             THEN MatchAt(items, idx + 1, text, pos + 1) ELSE -1
        [] it.q = "*" -> TryRep(items, idx, text, pos, RunLen(it, text, pos), 0)
        [] it.q = "+" -> TryRep(items, idx, text, pos, RunLen(it, text, pos), 1)
        [] OTHER ->      \* "++": possessive, never gives a lexeme back
             LET n == RunLen(it, text, pos) IN
             IF n >= 1 THEN MatchAt(items, idx + 1, text, pos + n) ELSE -1

TryRep(items, idx, text, pos, n, min) ==
    IF n < min THEN -1
    ELSE LET r == MatchAt(items, idx + 1, text, pos + n) IN
         IF r # -1 THEN r ELSE TryRep(items, idx, text, pos, n - 1, min)

\* Pattern.search: start of the leftmost match, or 0.
RECURSIVE SearchFrom(_, _, _)
SearchFrom(items, text, pos) ==
    IF pos > Len(text) + 1 THEN 0
    ELSE IF MatchAt(items, 1, text, pos) # -1 THEN pos
    ELSE SearchFrom(items, text, pos + 1)

\* Pattern.sub with an already expanded replacement: every non-overlapping
\* match, leftmost first, is replaced.  (No pattern of the program matches
\* the empty string, so a match always consumes at least one lexeme.)
RECURSIVE SubFrom(_, _, _, _)
SubFrom(items, repl, text, pos) ==
    IF pos > Len(text) THEN <<>>
    ELSE LET e == MatchAt(items, 1, text, pos) IN
         IF e > pos THEN repl \o SubFrom(items, repl, text, e)
         ELSE <<text[pos]>> \o SubFrom(items, repl, text, pos + 1)

(***************************************************************************)
(* re's replacement template (sre_parse.parse_template): a backslash       *)
(* starts an escape.  ngroups is the number of groups of the pattern.      *)
(***************************************************************************)
Digits == {"0", "1"}
AsciiLetters == {"a", "g", "z", "X"}
OctVal(ds) == IF Len(ds) = 0 THEN 0
              ELSE LET d(i) == IF ds[i] = "1" THEN 1 ELSE 0
                   IN  IF Len(ds) = 1 THEN d(1)
                       ELSE IF Len(ds) = 2 THEN 8 * d(1) + d(2)
                       ELSE 64 * d(1) + 8 * d(2) + d(3)
\* chr() of the octal values that the digits 0 and 1 can spell.
Chr(n) == CASE n = 0 -> "\\x00" [] n = 1 -> SOH [] n = 8 -> "\\x08"
            [] n = 9 -> "\\t" [] n = 64 -> "@" [] n = 65 -> "A"
            [] n = 72 -> "H" [] OTHER -> "I"

\* A reference to group 1 left in an expanded template.  No template of the
\* program contains one: the "\1" of its f-string is the character chr(1).
GroupRef == "\\g<1>"

TemplateError == [ok |-> FALSE, out |-> <<>>]

RECURSIVE ExpandTemplate(_, _)
ExpandTemplate(tpl, ngroups) ==
    IF tpl = <<>> THEN [ok |-> TRUE, out |-> <<>>]
    ELSE IF Head(tpl) # BS THEN
        LET rest == ExpandTemplate(Tail(tpl), ngroups) IN
        IF rest.ok THEN [ok |-> TRUE, out |-> <<Head(tpl)>> \o rest.out]
        ELSE TemplateError
    ELSE IF Len(tpl) = 1 THEN TemplateError      \* bad escape (end of pattern)
    ELSE
        LET c == tpl[2]
            after(k) == SubSeq(tpl, k + 1, Len(tpl))
            dig(k) == Len(tpl) >= k /\ tpl[k] \in Digits
            emit(chars, k) ==
                LET rest == ExpandTemplate(after(k), ngroups) IN
                IF rest.ok THEN [ok |-> TRUE, out |-> chars \o rest.out]
                ELSE TemplateError
        IN
        CASE c = "0" ->          \* octal escape of up to three digits
               LET k == IF dig(3) THEN (IF dig(4) THEN 4 ELSE 3) ELSE 2
               IN  emit(<<Chr(OctVal(SubSeq(tpl, 2, k)))>>, k)
          [] c = "1" ->
               IF dig(3) /\ dig(4)
               THEN emit(<<Chr(OctVal(SubSeq(tpl, 2, 4)))>>, 4)
               ELSE IF dig(3) \/ ngroups < 1
               THEN TemplateError   \* invalid group reference
               ELSE emit(<<GroupRef>>, 2)
          [] c = "n" -> emit(<<NL>>, 2)
          [] c = BS -> emit(<<BS>>, 2)
          [] c \in AsciiLetters -> TemplateError   \* bad escape
          [] OTHER -> emit(<<BS, c>>, 2)

\* re.sub(pattern, template, text): the template is parsed before the text
\* is scanned, so a bad template raises even when nothing matches.
ReSub(items, ngroups, tpl, text) ==
    LET t == ExpandTemplate(tpl, ngroups) IN
    IF t.ok THEN [ok |-> TRUE, out |-> SubFrom(items, t.out, text, 1)]
    ELSE TemplateError

(***************************************************************************)
(* The patterns of the program.                                            *)
(***************************************************************************)
\* PACKAGE_RE as it would be with the field name of VERSION_RE.
PACKAGE_RE_WrongField ==
    <<Bol, Lit("Version: "), [cls |-> "dot", c |-> "", q |-> "+"]>>

\* PACKAGE_RE = re.compile("^Package: (.+)", re.MULTILINE)
PACKAGE_RE == <<Bol, Lit("Package: "), [cls |-> "dot", c |-> "", q |-> "+"]>>
\* VERSION_RE = re.compile("^Version: .*", re.MULTILINE)
VERSION_RE == <<Bol, Lit("Version: "), [cls |-> "dot", c |-> "", q |-> "*"]>>

\* A path used as a regular expression, as the f-string of the md5sums
\* pattern does: "." is the wildcard and "+" a quantifier of the item before
\* it ("+" after a quantified item makes it possessive, a third "+" is the
\* error "multiple repeat").
RECURSIVE CompileChars(_, _)
CompileChars(chars, acc) ==
    IF chars = <<>> THEN [ok |-> TRUE, out |-> acc]
    ELSE LET c == Head(chars)
             n == Len(acc)
         IN
         IF c = "+" THEN
             IF n = 0 \/ acc[n].cls \in {"bol", "eol"} \/ acc[n].q = "++"
             THEN TemplateError
             ELSE CompileChars(Tail(chars),
                    [acc EXCEPT ![n] = Rep(@, IF @.q = "1" THEN "+" ELSE "++")])
         ELSE IF c = "." THEN
             CompileChars(Tail(chars), Append(acc, [cls |-> "dot", c |-> "", q |-> "1"]))
         ELSE CompileChars(Tail(chars), Append(acc, Lit(c)))

\* f"^[^ ]*( *){changelog_gz_path}$" with re.MULTILINE
Md5sumsPattern(path) ==
    LET body == CompileChars(path, <<Bol, [cls |-> "notsp", c |-> "", q |-> "*"],
                                     Rep(Lit(SP), "*")>>)
    IN  IF body.ok THEN [ok |-> TRUE, out |-> Append(body.out, Eol)]
        ELSE TemplateError

\* f"usr/share/doc/{package_name}/{item}"
ChangelogItems == <<"changelog.gz", "changelog.Debian.gz">>
ItemChars(item) == IF item = "changelog.gz" THEN <<"changelog", ".", "gz">>
                   ELSE <<"changelog", ".", "Debian", ".", "gz">>
ChangelogPath(package_name, item) ==
    <<"usr/share/doc", "/">> \o package_name \o <<"/">> \o ItemChars(item)

(***************************************************************************)
(* Files.  A text file is a sequence of lexemes, AbsentText when the file  *)
(* does not exist.  A gzip file is [st, entries, gen]: st is "absent",     *)
(* "corrupt" (not gzip data) or "ok"; entries is the decompressed          *)
(* changelog, newest version first; gen counts the compressions that wrote *)
(* the file (the gzip header carries the time of compression, so each      *)
(* compression gives different bytes).                                     *)
(***************************************************************************)
AbsentText == <<"<absent>">>
AbsentGz == [st |-> "absent", entries |-> <<>>, gen |-> 0]
CorruptGz == [st |-> "corrupt", entries |-> <<>>, gen |-> 0]
OkGz(entries, gen) == [st |-> "ok", entries |-> entries, gen |-> gen]

\* hashlib.file_digest(fp, "md5").hexdigest(): one lexeme per file content.
Md5(file) == "md5:" \o ToString(file.gen) \o ":" \o ToString(file.entries)

JoinLines(ls) == Flatten([i \in 1..Len(ls) |-> Append(ls[i], NL)])

\* What stands at the input path when nothing is there.
NoDeb == [kind |-> "absent"]
PartialDeb == [kind |-> "partial"]
Deb(control, md5sums, docdir, clog, debian) ==
    [kind |-> "deb", control |-> control, md5sums |-> md5sums,
     docdir |-> docdir, clog |-> clog, debian |-> debian]

\* The staging tree before anything is extracted into it.
EmptyTree(exists) ==
    [exists |-> exists, control |-> AbsentText, md5sums |-> AbsentText,
     docdir |-> <<>>, clog |-> [i \in {"changelog.gz", "changelog.Debian.gz"} |-> AbsentGz],
     debian |-> "none", plain |-> AbsentText, built |-> NoDeb]

(***************************************************************************)
(* Inputs.                                                                 *)
(***************************************************************************)
VersionAlphabet == {"1", BS, "n"}
Versions == SeqsUpTo(VersionAlphabet, MaxVersionLen) \ {<<>>}
PkgNames == {<<"a">>, <<"a", "+">>, <<"a", "+", "+", "+">>}
OldVersion == <<"0">>
OldGz == OkGz(<<OldVersion>>, 0)

PackageLine(p) == <<"Package: ">> \o p
VersionLine(v) == <<"Version: ">> \o v
ArchLine == <<"Architecture: all">>

\* Control files: a field occurs at most once (dpkg refuses a control file
\* that repeats a field), in any order; Package or Version may be missing,
\* and the Package field may be empty.
ControlInputs(p) ==
    { JoinLines(<<PackageLine(p), VersionLine(OldVersion), ArchLine>>),
      JoinLines(<<VersionLine(OldVersion), PackageLine(p)>>),
      JoinLines(<<ArchLine, PackageLine(p), VersionLine(OldVersion)>>),
      JoinLines(<<PackageLine(p), ArchLine>>),
      JoinLines(<<VersionLine(OldVersion), ArchLine>>),
      JoinLines(<<PackageLine(<<>>), VersionLine(OldVersion)>>) }
StdControl(p) == JoinLines(<<PackageLine(p), VersionLine(OldVersion), ArchLine>>)

\* Lines of DEBIAN/md5sums: the two changelog candidates, a path that
\* differs from changelog.gz in one character, and a line without a path.
ManifestLine(hash, path) == <<hash, SP, SP>> \o path
NearPath(p) == <<"usr/share/doc", "/">> \o p \o <<"/", "changelog", "X", "gz">>
ManifestLines(p) ==
    { ManifestLine(Md5(OldGz), ChangelogPath(p, "changelog.gz")),
      ManifestLine(Md5(OldGz), ChangelogPath(p, "changelog.Debian.gz")),
      ManifestLine("h1", NearPath(p)),
      <<"junk">> }
ManifestInputs(p) ==
    {JoinLines(ls) : ls \in SeqsUpTo(ManifestLines(p), MaxManifestLines)}
        \cup {AbsentText}
StdManifest(p) ==
    JoinLines(<<ManifestLine(Md5(OldGz), ChangelogPath(p, "changelog.gz"))>>)

ClogOf(gz, debgz) ==
    [i \in {"changelog.gz", "changelog.Debian.gz"} |->
        IF i = "changelog.gz" THEN gz ELSE debgz]
ClogInputs ==
    { ClogOf(OldGz, AbsentGz), ClogOf(AbsentGz, OldGz), ClogOf(AbsentGz, AbsentGz),
      ClogOf(OldGz, OldGz), ClogOf(CorruptGz, OldGz) }
DebianEntries == {"none", "dir", "file"}

\* The runs the model starts from: every command line against a plain
\* archive, every control file and version against a plain payload, and
\* every payload and manifest against a plain control file.
Inputs ==
    { [argc |-> n, euid |-> u, version |-> <<"1">>, deb |-> d] :
        n \in 0..2, u \in {0, 1000},
        d \in {NoDeb, Deb(StdControl(<<"a">>), StdManifest(<<"a">>), <<"a">>,
                          ClogOf(OldGz, AbsentGz), "none")} }
    \cup
    { [argc |-> 2, euid |-> 0, version |-> v,
       deb |-> Deb(c, StdManifest(<<"a">>), <<"a">>, cl, "none")] :
        v \in Versions, c \in ControlInputs(<<"a">>),
        cl \in {ClogOf(OldGz, AbsentGz), ClogOf(AbsentGz, AbsentGz)} }
    \cup
    UNION { { [argc |-> 2, euid |-> 0, version |-> <<"1">>,
               deb |-> Deb(StdControl(p), m, p, cl, d)] :
                m \in ManifestInputs(p), cl \in ClogInputs, d \in DebianEntries } :
            p \in PkgNames }

(***************************************************************************)
(* State.                                                                  *)
(***************************************************************************)
VARIABLES
    pc,           \* position of main()
    argc,         \* number of command-line arguments after the program name
    euid,         \* os.geteuid()
    new_version,  \* sys.argv[2]
    debFile,      \* the file at deb_file_path
    tree,         \* the temporary directory and package/ inside it
    control_text, \* local of main()
    package_name, \* local of main()
    item,         \* the changelog candidate passed to _update_changelog_file
    err,          \* the exception that is propagating, "none" without one
    failedAt,     \* the step that raised it
    exitCode,     \* exit status of the process, -1 while it runs
    calls,        \* external tools invoked by this run, in order
    warned,       \* the changelog warning was printed
    md5Touched,   \* DEBIAN/md5sums was opened by this run
    remaining,    \* candidates the `for` loop of main() has not tried yet
    orig,         \* the file at deb_file_path when this run started
    extracted,    \* the changelog candidates as dpkg-deb extracted them
    run           \* number of this run

vars == <<pc, argc, euid, new_version, debFile, tree, control_text,
          package_name, item, remaining, err, failedAt, exitCode, calls,
          warned, md5Touched, orig, extracted, run>>

Init ==
    \E inp \in Inputs :
        /\ pc = "start"
        /\ argc = inp.argc
        /\ euid = inp.euid
        /\ new_version = inp.version
        /\ debFile = inp.deb
        /\ tree = EmptyTree(FALSE)
        /\ control_text = <<>>
        /\ package_name = <<>>
        /\ item = ""
        /\ remaining = <<>>
        /\ err = "none"
        /\ failedAt = ""
        /\ exitCode = -1
        /\ calls = <<>>
        /\ warned = FALSE
        /\ md5Touched = FALSE
        /\ orig = inp.deb
        /\ extracted = EmptyTree(FALSE).clog
        /\ run = 1

(***************************************************************************)
(* Steps of main() and of _update_changelog_file().  Everything from       *)
(* "extract" to "move" runs inside `with tempfile.TemporaryDirectory()`,   *)
(* so an exception there goes to "cleanup" first.                          *)
(***************************************************************************)
\* Raise as it would be without the `with` block around the steps: the
\* exception ends the process at once.
RaiseWithoutCleanup(step, exc) ==
    /\ err' = exc
    /\ failedAt' = step
    /\ pc' = "done"

Raise(step, exc) ==
    /\ err' = exc
    /\ failedAt' = step
    /\ pc' = "cleanup"

Goto(next) ==
    /\ pc' = next
    /\ UNCHANGED <<err, failedAt>>

\* check_call as it would be if the build were run with subprocess.call,
\* which returns the exit status instead of raising.
CallIgnoresBuildStatus(tool, ok) == ~ok /\ tool # "build"

\* subprocess.check_call raises CalledProcessError when the tool exits
\* non-zero.
CheckCallRaises(tool, ok) == ~ok

Called(tool, ok) == [tool |-> tool, ok |-> ok]

\* The handler as it would be if main() did not catch the error of dch.
DchNotCaught(exc) == FALSE

\* The `except subprocess.CalledProcessError` of main() around
\* _update_changelog_file (lines 93-99).
DchCaught(exc) == exc = "CalledProcessError"

\* The loop as it would be without its `break`: after an update it goes on
\* with the next candidate.
AfterUpdateWithoutBreak == "find_changelog"

\* `break` (line 100): after the update of a candidate, whether it returned
\* or its error was caught, main() leaves the loop.
AfterUpdate == "write_control"

\* An exception raised inside _update_changelog_file: caught by main() with
\* a warning and followed by `break` (line 100), or propagating.
RaiseInUpdate(step, exc) ==
    IF DchCaught(exc)
    THEN /\ warned' = TRUE
         /\ Goto(AfterUpdate)
    ELSE /\ Raise(step, exc)
         /\ UNCHANGED warned

\* deb_file_path = os.path.abspath(sys.argv[1]); new_version = sys.argv[2]
ReadArgs ==
    /\ pc = "start"
    /\ IF argc < 2
       THEN /\ err' = "IndexError"
            /\ failedAt' = "argv"
            /\ exitCode' = 1
            /\ pc' = "done"
       ELSE /\ Goto("check_euid")
            /\ UNCHANGED exitCode
    /\ UNCHANGED <<argc, euid, new_version, debFile, tree, control_text,
                   package_name, item, remaining, calls, warned, md5Touched,
                   orig, extracted, run>>

\* if os.geteuid() != 0: print(...); raise SystemExit(77)
CheckEuid ==
    /\ pc = "check_euid"
    /\ IF euid # 0
       THEN /\ exitCode' = 77
            /\ pc' = "done"
       ELSE /\ exitCode' = exitCode
            /\ pc' = "mkdtemp"
    /\ UNCHANGED <<argc, euid, new_version, debFile, tree, control_text,
                   package_name, item, remaining, err, failedAt, calls,
                   warned, md5Touched, orig, extracted, run>>

\* with tempfile.TemporaryDirectory() as tmpdir: os.mkdir(package_dir); chdir
MakeTmp ==
    /\ pc = "mkdtemp"
    /\ tree' = EmptyTree(TRUE)
    /\ Goto("extract")
    /\ UNCHANGED <<argc, euid, new_version, debFile, control_text,
                   package_name, item, remaining, exitCode, calls, warned,
                   md5Touched, orig, extracted, run>>

\* What dpkg-deb can do with the file at deb_file_path: it fails on anything
\* that is not an archive, and may fail on an archive.
DpkgOutcomes(file) == IF file.kind = "deb" THEN BOOLEAN ELSE {FALSE}

\* subprocess.check_call(("dpkg-deb", "--extract", deb_file_path, "."))
Extract ==
    /\ pc = "extract"
    /\ \E ok \in DpkgOutcomes(debFile) :
        /\ calls' = Append(calls, Called("extract", ok))
        /\ IF CheckCallRaises("extract", ok)
           THEN /\ Raise("extract", "CalledProcessError")
                /\ UNCHANGED <<tree, extracted>>
           ELSE /\ tree' = IF ok
                           THEN [tree EXCEPT !.docdir = debFile.docdir,
                                             !.clog = debFile.clog,
                                             !.debian = debFile.debian]
                           ELSE tree
                /\ extracted' = tree'.clog
                /\ Goto("extract_control")
    /\ UNCHANGED <<argc, euid, new_version, debFile, control_text,
                   package_name, item, remaining, exitCode, warned,
                   md5Touched, orig, run>>

\* subprocess.check_call(("dpkg-deb", "--control", deb_file_path, "DEBIAN"))
ExtractControl ==
    /\ pc = "extract_control"
    /\ \E ok \in DpkgOutcomes(debFile) :
        /\ calls' = Append(calls, Called("extract_control", ok))
        /\ IF CheckCallRaises("extract_control", ok)
           THEN /\ Raise("extract_control", "CalledProcessError")
                /\ UNCHANGED tree
           ELSE /\ tree' = IF ok
                           THEN [tree EXCEPT !.control = debFile.control,
                                             !.md5sums = debFile.md5sums]
                           ELSE tree
                /\ Goto("read_control")
    /\ UNCHANGED <<argc, euid, new_version, debFile, control_text,
                   package_name, item, remaining, exitCode, warned,
                   md5Touched, orig, extracted, run>>

\* match[1] of PACKAGE_RE: the rest of the line after "Package: ".
RECURSIVE RestOfLine(_, _)
RestOfLine(text, pos) ==
    IF pos > Len(text) \/ text[pos] = NL THEN <<>>
    ELSE <<text[pos]>> \o RestOfLine(text, pos + 1)

\* VERSION_RE.sub(f"Version: {new_version}", control_text)
SubVersion(version, text) ==
    ReSub(VERSION_RE, 0, <<"Version: ">> \o version, text)

\* Lines 81-89: read DEBIAN/control, find the package name, rewrite the
\* version in the local copy of the text.
ReadControl ==
    /\ pc = "read_control"
    /\ LET text == tree.control
           at == SearchFrom(PACKAGE_RE, text, 1)
           sub == SubVersion(new_version, text)
       IN
       IF text = AbsentText
       THEN /\ Raise("read_control", "FileNotFoundError")
            /\ UNCHANGED <<control_text, package_name>>
       ELSE IF at = 0
       THEN /\ Raise("read_control", "RuntimeError")
            /\ control_text' = text
            /\ UNCHANGED package_name
       ELSE IF ~sub.ok
       THEN /\ Raise("read_control", "re.error")
            /\ control_text' = text
            /\ package_name' = RestOfLine(text, at + 1)
       ELSE /\ Goto("find_changelog")
            /\ control_text' = sub.out
            /\ package_name' = RestOfLine(text, at + 1)
    /\ remaining' = ChangelogItems
    /\ UNCHANGED <<argc, euid, new_version, debFile, tree, item, exitCode,
                   calls, warned, md5Touched, orig, extracted, run>>

\* os.path.isfile(f"usr/share/doc/{package_name}/{item}")
IsFile(t, pkg, it) == t.docdir = pkg /\ t.clog[it].st # "absent"

\* for item in ("changelog.gz", "changelog.Debian.gz"): one turn of the
\* loop.  A candidate that is a file is updated and the loop is left.
FindChangelog ==
    /\ pc = "find_changelog"
    /\ IF remaining = <<>>
       THEN /\ Goto("write_control")
            /\ UNCHANGED <<item, remaining>>
       ELSE /\ item' = Head(remaining)
            /\ remaining' = Tail(remaining)
            /\ IF IsFile(tree, package_name, Head(remaining))
               THEN Goto("mkdir_debian")
               ELSE Goto("find_changelog")
    /\ UNCHANGED <<argc, euid, new_version, debFile, tree, control_text,
                   package_name, exitCode, calls, warned, md5Touched, orig,
                   extracted, run>>

\* os.mkdir("debian")
MkdirDebian ==
    /\ pc = "mkdir_debian"
    /\ IF tree.debian # "none"
       THEN /\ RaiseInUpdate("mkdir_debian", "FileExistsError")
            /\ UNCHANGED tree
       ELSE /\ tree' = [tree EXCEPT !.debian = "dir"]
            /\ Goto("gunzip")
            /\ UNCHANGED warned
    /\ UNCHANGED <<argc, euid, new_version, debFile, control_text,
                   package_name, item, remaining, exitCode, calls,
                   md5Touched, orig, extracted, run>>

\* Lines 28-32: decompress the changelog into debian/changelog.
Gunzip ==
    /\ pc = "gunzip"
    /\ IF tree.clog[item].st = "corrupt"
       THEN /\ RaiseInUpdate("gunzip", "BadGzipFile")
            /\ tree' = [tree EXCEPT !.plain = <<>>]
       ELSE /\ tree' = [tree EXCEPT !.plain = tree.clog[item].entries]
            /\ Goto("dch")
            /\ UNCHANGED warned
    /\ UNCHANGED <<argc, euid, new_version, debFile, control_text,
                   package_name, item, remaining, exitCode, calls,
                   md5Touched, orig, extracted, run>>

\* Lines 33-40: dch -v new_version puts the new entry on top of
\* debian/changelog, or exits non-zero.
Dch ==
    /\ pc = "dch"
    /\ \E ok \in BOOLEAN :
        /\ calls' = Append(calls, Called("dch", ok))
        /\ IF CheckCallRaises("dch", ok)
           THEN /\ RaiseInUpdate("dch", "CalledProcessError")
                /\ UNCHANGED tree
           ELSE /\ tree' = IF ok
                           THEN [tree EXCEPT !.plain = <<new_version>> \o tree.plain]
                           ELSE tree
                /\ Goto("gzip")
                /\ UNCHANGED warned
    /\ UNCHANGED <<argc, euid, new_version, debFile, control_text,
                   package_name, item, remaining, exitCode, md5Touched, orig,
                   extracted, run>>

\* Lines 41-45: compress debian/changelog over the changelog file.
Gzip ==
    /\ pc = "gzip"
    /\ tree' = [tree EXCEPT !.clog[item] = OkGz(tree.plain, tree.clog[item].gen + 1)]
    /\ Goto("md5sums")
    /\ UNCHANGED <<argc, euid, new_version, debFile, control_text,
                   package_name, item, remaining, exitCode, calls, warned,
                   md5Touched, orig, extracted, run>>

\* Lines 52-57: re.sub(f"^[^ ]*( *){path}$", f"{md5sum}\1{path}", text,
\* flags=re.MULTILINE).  "\1" in the f-string is the character chr(1).
SubMd5sums(path, md5sum, text) ==
    LET pat == Md5sumsPattern(path) IN
    IF pat.ok THEN ReSub(pat.out, 1, <<md5sum, SOH>> \o path, text)
    ELSE TemplateError

\* Lines 47-59: digest of the new changelog file, rewrite DEBIAN/md5sums.
UpdateMd5sums ==
    /\ pc = "md5sums"
    /\ md5Touched' = TRUE
    /\ LET path == ChangelogPath(package_name, item)
           sub == SubMd5sums(path, Md5(tree.clog[item]), tree.md5sums)
       IN
       IF tree.md5sums = AbsentText
       THEN /\ RaiseInUpdate("md5sums", "FileNotFoundError")
            /\ UNCHANGED tree
       ELSE IF ~sub.ok
       THEN /\ RaiseInUpdate("md5sums", "re.error")
            /\ UNCHANGED tree
       ELSE /\ tree' = [tree EXCEPT !.md5sums = sub.out]
            /\ Goto(AfterUpdate)
            /\ UNCHANGED warned
    /\ UNCHANGED <<argc, euid, new_version, debFile, control_text,
                   package_name, item, remaining, exitCode, calls, orig,
                   extracted, run>>

\* Lines 101-102: write control_text over DEBIAN/control (the write can fail).
WriteControl ==
    /\ pc = "write_control"
    /\ \E ok \in BOOLEAN :
        IF ok
        THEN /\ tree' = [tree EXCEPT !.control = control_text]
             /\ Goto("rmtree")
        ELSE /\ Raise("write_control", "OSError")
             /\ UNCHANGED tree
    /\ UNCHANGED <<argc, euid, new_version, debFile, control_text,
                   package_name, item, remaining, exitCode, calls, warned,
                   md5Touched, orig, extracted, run>>

\* The handler as it would be if it swallowed every error of rmtree.
IgnoreEveryError(exc) == TRUE

\* _ignore_file_not_found: only FileNotFoundError is swallowed.
IgnoreFileNotFound(exc) == exc = "FileNotFoundError"

\* shutil.rmtree("debian", onerror=_ignore_file_not_found): the error
\* rmtree meets, "none" when it removes the directory.
RmtreeErrors(entry) ==
    CASE entry = "none" -> {"FileNotFoundError"}
      [] entry = "file" -> {"NotADirectoryError"}
      [] OTHER -> {"none", "PermissionError"}

RmtreeDebian ==
    /\ pc = "rmtree"
    /\ \E exc \in RmtreeErrors(tree.debian) :
        IF exc = "none"
        THEN /\ tree' = [tree EXCEPT !.debian = "none", !.plain = AbsentText]
             /\ Goto("build")
        ELSE IF IgnoreFileNotFound(exc)
        THEN /\ Goto("build")
             /\ UNCHANGED tree
        ELSE /\ Raise("rmtree", exc)
             /\ UNCHANGED tree
    /\ UNCHANGED <<argc, euid, new_version, debFile, control_text,
                   package_name, item, remaining, exitCode, calls, warned,
                   md5Touched, orig, extracted, run>>

\* What dpkg-deb -b packs: DEBIAN/ and everything else under package/.
Packed(t) == Deb(t.control, t.md5sums, t.docdir, t.clog, t.debian)

\* Build as it would be with the input path as the output of dpkg-deb -b:
\* the archive is written in place, and a failed build leaves a part of it.
BuildOntoInput ==
    /\ pc = "build"
    /\ \E ok \in BOOLEAN :
        /\ calls' = Append(calls, Called("build", ok))
        /\ IF CheckCallRaises("build", ok)
           THEN /\ Raise("build", "CalledProcessError")
                /\ debFile' = PartialDeb
                /\ UNCHANGED tree
           ELSE /\ debFile' = Packed(tree)
                /\ tree' = [tree EXCEPT !.built = Packed(tree)]
                /\ Goto("move")
    /\ UNCHANGED <<argc, euid, new_version, control_text,
                   package_name, item, remaining, exitCode, warned,
                   md5Touched, orig, extracted, run>>

\* os.chdir(".."); subprocess.check_call(("dpkg-deb", "-b", "package"))
Build ==
    /\ pc = "build"
    /\ \E ok \in BOOLEAN :
        /\ calls' = Append(calls, Called("build", ok))
        /\ IF CheckCallRaises("build", ok)
           THEN /\ Raise("build", "CalledProcessError")
                /\ UNCHANGED tree
           ELSE /\ tree' = IF ok THEN [tree EXCEPT !.built = Packed(tree)]
                           ELSE tree
                /\ Goto("move")
    /\ UNCHANGED <<argc, euid, new_version, debFile, control_text,
                   package_name, item, remaining, exitCode, warned,
                   md5Touched, orig, extracted, run>>

\* shutil.move("package.deb", deb_file_path): a move that fails half way
\* may have begun to copy over the destination; with no package.deb it
\* fails before it touches the destination.
Move ==
    /\ pc = "move"
    /\ IF tree.built = NoDeb
       THEN /\ Raise("move", "FileNotFoundError")
            /\ UNCHANGED <<debFile, tree>>
       ELSE \/ /\ debFile' = tree.built
               /\ tree' = [tree EXCEPT !.built = NoDeb]
               /\ Goto("cleanup")
            \/ /\ debFile' \in {debFile, PartialDeb}
               /\ Raise("move", "OSError")
               /\ UNCHANGED tree
    /\ UNCHANGED <<argc, euid, new_version, control_text, package_name, item,
                   remaining, exitCode, calls, warned, md5Touched, orig,
                   extracted, run>>

\* The exit status as it would be if SystemExit(0) were raised whatever
\* happened inside the `with` block.
ExitStatusAlwaysZero(exc) == 0

\* Exit status of the process: SystemExit(0), or the traceback of the
\* exception that propagated out of main().
ExitStatus(exc) == IF exc = "none" THEN 0 ELSE 1

\* End of the `with` block: the temporary directory is removed, then the
\* process ends.
Cleanup ==
    /\ pc = "cleanup"
    /\ tree' = EmptyTree(FALSE)
    /\ exitCode' = ExitStatus(err)
    /\ pc' = "done"
    /\ UNCHANGED <<argc, euid, new_version, debFile, control_text,
                   package_name, item, remaining, err, failedAt, calls,
                   warned, md5Touched, orig, extracted, run>>

\* The tool is run again on the same path with the same version.
Rerun ==
    /\ pc = "done"
    /\ exitCode = 0
    /\ run < MaxRuns
    /\ pc' = "start"
    /\ run' = run + 1
    /\ orig' = debFile
    /\ exitCode' = -1
    /\ calls' = <<>>
    /\ warned' = FALSE
    /\ md5Touched' = FALSE
    /\ control_text' = <<>>
    /\ package_name' = <<>>
    /\ item' = ""
    /\ remaining' = <<>>
    /\ extracted' = EmptyTree(FALSE).clog
    /\ UNCHANGED <<argc, euid, new_version, debFile, tree, err, failedAt>>

Next ==
    \/ ReadArgs \/ CheckEuid \/ MakeTmp \/ Extract \/ ExtractControl
    \/ ReadControl \/ FindChangelog \/ MkdirDebian \/ Gunzip \/ Dch \/ Gzip
    \/ UpdateMd5sums \/ WriteControl \/ RmtreeDebian \/ Build \/ Move
    \/ Cleanup \/ Rerun

Spec == Init /\ [][Next]_vars

(***************************************************************************)
(* Properties.                                                             *)
(***************************************************************************)
StartsWith(line, lexeme) == Len(line) >= 1 /\ line[1] = lexeme
LinesStarting(text, lexeme) ==
    SelectSeq(Lines(text), LAMBDA l : StartsWith(l, lexeme))
LinesEqual(text, line) == SelectSeq(Lines(text), LAMBDA l : l = line)
Tools(cs) == [i \in 1..Len(cs) |-> cs[i].tool]
Succeeded == pc = "done" /\ exitCode = 0

\* C1: after a successful run on an archive whose control file has a
\* "Version: " line and a "Package: " line, the control file of the archive
\* at the input path has exactly one line equal to "Version: " followed by
\* new_version as given, and its "Package: " lines are those of the input.
C1_VersionLineIsNewVersionVerbatim ==
    (/\ Succeeded
     /\ orig.kind = "deb"
     /\ LinesStarting(orig.control, "Version: ") # <<>>
     /\ LinesStarting(orig.control, "Package: ") # <<>>)
    => /\ debFile.kind = "deb"
       /\ Len(LinesEqual(debFile.control, VersionLine(new_version))) = 1
       /\ LinesStarting(debFile.control, "Package: ")
            = LinesStarting(orig.control, "Package: ")

\* C2: the file at the input path differs from the archive the run started
\* with only once the move has been executed; a run that failed at any step
\* before the move leaves that file as it was.
C2_ArchiveWrittenOnlyByMove ==
    \/ debFile = orig
    \/ /\ pc \in {"cleanup", "done"}
       /\ failedAt \in {"", "move"}

C2_FailedBuildLeavesArchive ==
    /\ pc = "done"
    /\ failedAt = "build"
    /\ exitCode # 0
    /\ debFile = orig
    /\ control_text # orig.control

\* C3: a run with an effective user id other than root ends with status 77,
\* whatever the arguments are, and has touched neither the input archive
\* nor anything else of the filesystem.
C3_NonRootExits77 ==
    (pc = "done" /\ euid # 0)
    => /\ exitCode = 77
       /\ debFile = orig
       /\ calls = <<>>
       /\ ~tree.exists

\* C4 (helpers): the path field of a manifest line is what follows the
\* first run of spaces.
FirstSpace(line) ==
    IF \E i \in 1..Len(line) : line[i] = SP
    THEN CHOOSE i \in 1..Len(line) :
            line[i] = SP /\ \A j \in 1..(i - 1) : line[j] # SP
    ELSE 0
PathField(line) ==
    LET i == FirstSpace(line) IN
    IF i = 0 THEN <<>>
    ELSE SubSeq(line, i + RunLen(Lit(SP), line, i), Len(line))
EndsWith(line, suffix) ==
    /\ Len(line) >= Len(suffix)
    /\ SubSeq(line, Len(line) - Len(suffix) + 1, Len(line)) = suffix

\* C4: once _update_changelog_file has rewritten DEBIAN/md5sums, the line
\* whose path field is the changelog's path starts with the MD5 of the
\* recompressed changelog and still ends with that path, and every other
\* line of the manifest is as it was extracted.
C4_ManifestLineCarriesNewMd5 ==
    (/\ md5Touched
     /\ err = "none"
     /\ pc \in {"write_control", "rmtree", "build", "move"})
    => LET old == Lines(orig.md5sums)
           new == Lines(tree.md5sums)
           path == ChangelogPath(package_name, item)
       IN  /\ Len(new) = Len(old)
           /\ \A i \in 1..Len(old) :
                IF PathField(old[i]) = path
                THEN /\ StartsWith(new[i], Md5(tree.clog[item]))
                     /\ EndsWith(new[i], path)
                ELSE new[i] = old[i]

DchFailed == \E i \in 1..Len(calls) : calls[i] = Called("dch", FALSE)

\* C5: when dch exits non-zero the warning is printed, the changelog files
\* of the staged tree stay as extracted, the run goes on with the control
\* write-back, the removal of debian/, the build and the move, and unless
\* one of those fails the process exits with status 0 and the new archive,
\* with the rewritten control file and the old changelog, is in place.
C5_DchFailureIsAdvisory ==
    DchFailed
    => /\ warned
       /\ tree.exists => tree.clog = extracted
       /\ pc \in {"write_control", "rmtree", "build", "move", "cleanup", "done"}
       /\ err # "none" => failedAt \in {"write_control", "rmtree", "build", "move"}
       /\ (pc = "done" /\ err = "none")
            => /\ exitCode = 0
               /\ Tools(calls) = <<"extract", "extract_control", "dch", "build">>
               /\ debFile.kind = "deb"
               /\ debFile.clog = extracted
               /\ debFile.control = control_text

C5_RunSucceedsAfterDchFailure ==
    /\ Succeeded
    /\ DchFailed
    /\ warned
    /\ debFile # orig

\* C6: the temporary directory exists only between its creation and the end
\* of the `with` block; no run that has ended, however it ended, leaves it.
C6_StagingTreeRemoved ==
    pc \in {"start", "check_euid", "mkdtemp", "done"} => ~tree.exists

C6_RemovedAfterEditError ==
    /\ pc = "done"
    /\ err = "BadGzipFile"
    /\ exitCode # 0
    /\ ~tree.exists

NoPackageLine == orig.kind = "deb" /\ LinesStarting(orig.control, "Package: ") = <<>>

\* C7: when DEBIAN/control has no line beginning "Package: ", the run raises
\* before the changelog loop, the control write-back and the build: dch and
\* dpkg-deb -b are never called, DEBIAN/control and the input archive stay
\* as they were, and the exit status is not 0.
C7_NoPackageLineIsFatal ==
    NoPackageLine
    => /\ pc \notin {"find_changelog", "mkdir_debian", "gunzip", "dch", "gzip",
                     "md5sums", "write_control", "rmtree", "build", "move"}
       /\ \A i \in 1..Len(calls) : calls[i].tool \notin {"dch", "build"}
       /\ tree.control \in {AbsentText, orig.control}
       /\ debFile = orig
       /\ pc = "done" => exitCode # 0

C7_RuntimeErrorRaised ==
    /\ NoPackageLine
    /\ pc = "done"
    /\ err = "RuntimeError"
    /\ failedAt = "read_control"
    /\ exitCode = 1

IsPrefix(s, t) == Len(s) <= Len(t) /\ s = SubSeq(t, 1, Len(s))

\* C8: the tools are called at most once each, in the order extract,
\* extract-control, dch (if at all), build; a non-zero exit of extract,
\* extract-control or build is the last call of the run, which goes straight
\* to the end with a non-zero status; a non-zero exit of dch is the only one
\* after which the run goes on.
C8_ToolsOnceInOrderFailFast ==
    /\ \/ IsPrefix(Tools(calls), <<"extract", "extract_control", "dch", "build">>)
       \/ IsPrefix(Tools(calls), <<"extract", "extract_control", "build">>)
    /\ \A i \in 1..Len(calls) :
        ~calls[i].ok =>
            IF calls[i].tool = "dch"
            THEN /\ warned
                 /\ failedAt # "dch"
            ELSE /\ i = Len(calls)
                 /\ pc \in {"cleanup", "done"}
                 /\ err = "CalledProcessError"
                 /\ failedAt = calls[i].tool
                 /\ pc = "done" => exitCode = 1

C8_ControlExtractFailed ==
    /\ pc = "done"
    /\ Len(calls) = 2
    /\ ~calls[2].ok
    /\ exitCode = 1

NoChangelogFile ==
    /\ orig.kind = "deb"
    /\ \A i \in 1..Len(ChangelogItems) : orig.clog[ChangelogItems[i]].st = "absent"

\* C9: when the payload has neither changelog.gz nor changelog.Debian.gz,
\* DEBIAN/md5sums is never opened, dch is never called, no step of the
\* changelog update and no removal of debian/ raises (other than for a
\* permission the environment denies), and a run that got past the control
\* write-back calls the build tool.
C9_NoChangelogNoChangelogError ==
    NoChangelogFile
    => /\ ~md5Touched
       /\ \A i \in 1..Len(calls) : calls[i].tool # "dch"
       /\ failedAt \notin {"mkdir_debian", "gunzip", "dch", "gzip", "md5sums"}
       /\ failedAt = "rmtree" => err = "PermissionError"
       /\ (pc = "done" /\ failedAt \notin {"extract", "extract_control",
                                           "read_control", "write_control", "rmtree"})
            => \E i \in 1..Len(calls) : calls[i].tool = "build"

\* C10: after a second successful run with the same new_version, every
\* "Version: " line of the control file is "Version: " followed by
\* new_version as given, and there is one if the input had one.
C10_SecondRunKeepsVersionLine ==
    (run = 2 /\ Succeeded)
    => /\ \A i \in 1..Len(LinesStarting(debFile.control, "Version: ")) :
            LinesStarting(debFile.control, "Version: ")[i] = VersionLine(new_version)
       /\ LinesStarting(orig.control, "Version: ") # <<>>
            => LinesStarting(debFile.control, "Version: ") # <<>>

\* The run of spaces that follows the first field of a manifest line.
SpaceRun(line) ==
    LET i == FirstSpace(line) IN
    IF i = 0 THEN <<>>
    ELSE SubSeq(line, i, i + RunLen(Lit(SP), line, i) - 1)

\* C11: a manifest line that _update_changelog_file has rewritten is the new
\* checksum, then the run of spaces of the line as it was, then the path of
\* the changelog, with nothing else between them.
C11_RewrittenLineKeepsSpaces ==
    (/\ md5Touched
     /\ err = "none"
     /\ pc \in {"write_control", "rmtree", "build", "move"}
     /\ Len(Lines(tree.md5sums)) = Len(Lines(orig.md5sums)))
    => LET old == Lines(orig.md5sums)
           new == Lines(tree.md5sums)
       IN  \A i \in 1..Len(old) :
             new[i] # old[i]
             => new[i] = <<Md5(tree.clog[item])>> \o SpaceRun(old[i])
                            \o ChangelogPath(package_name, item)

UpdateSteps == {"mkdir_debian", "gunzip", "dch", "gzip", "md5sums"}
FirstCandidateExists ==
    extracted["changelog.gz"].st # "absent" /\ tree.docdir = package_name

\* C12: the loop tries changelog.gz before changelog.Debian.gz and starts
\* the update at most once: while the loop is still looking, no update has
\* begun, and when changelog.gz exists every step of the update works on
\* changelog.gz, the loop never comes to changelog.Debian.gz, and that file
\* stays as extracted up to the archive that is moved into place, whether
\* dch succeeded or failed.
C12_OnlyFirstCandidateTouched ==
    /\ pc = "find_changelog"
         => /\ IsPrefix(remaining, ChangelogItems) \/ remaining = Tail(ChangelogItems)
            /\ tree.plain = AbsentText
            /\ ~warned /\ ~md5Touched
            /\ \A i \in 1..Len(calls) : calls[i].tool # "dch"
    /\ pc \in UpdateSteps => item = ChangelogItems[Len(ChangelogItems) - Len(remaining)]
    /\ (/\ FirstCandidateExists
        /\ pc \in UpdateSteps \cup {"write_control", "rmtree", "build", "move"})
         => /\ pc \in UpdateSteps => item = "changelog.gz"
            /\ remaining = <<"changelog.Debian.gz">>
            /\ tree.clog["changelog.Debian.gz"] = extracted["changelog.Debian.gz"]
            /\ tree.built # NoDeb
                 => tree.built.clog["changelog.Debian.gz"] = extracted["changelog.Debian.gz"]

C12_BothExistFirstUpdated ==
    /\ Succeeded
    /\ orig.clog["changelog.gz"].st = "ok"
    /\ orig.clog["changelog.Debian.gz"].st = "ok"
    /\ debFile.clog["changelog.gz"] # orig.clog["changelog.gz"]
    /\ debFile.clog["changelog.Debian.gz"] = orig.clog["changelog.Debian.gz"]

PackageButNoVersion ==
    /\ orig.kind = "deb"
    /\ SearchFrom(PACKAGE_RE, orig.control, 1) # 0
    /\ LinesStarting(orig.control, "Version: ") = <<>>

\* C13: when DEBIAN/control names the package but has no line beginning
\* "Version: ", the version substitution raises nothing and changes nothing:
\* the text written back is the text read, and a run in which no other step
\* fails repacks that text and exits with status 0.
C13_NoVersionLineIsNoOp ==
    PackageButNoVersion
    => /\ failedAt # "read_control"
       /\ pc \in UpdateSteps \cup {"find_changelog", "write_control", "rmtree",
                                   "build", "move"}
            => control_text = orig.control
       /\ tree.exists /\ tree.control # AbsentText => tree.control = orig.control
       /\ (pc = "done" /\ failedAt = "")
            => exitCode = 0 /\ debFile.kind = "deb" /\ debFile.control = orig.control

BuildCalled == \E i \in 1..Len(calls) : calls[i].tool = "build"

\* C14: debian/ is removed before dpkg-deb -b is called: the build never
\* sees it.  When debian/ does not exist the FileNotFoundError of rmtree is
\* swallowed and the next step is the build; any other error of rmtree
\* propagates, and the run ends with a non-zero status without a build and
\* with the input archive as it was.
C14_RmtreeBeforeBuildOnlyNotFoundIgnored ==
    /\ [](BuildCalled /\ tree.exists => tree.debian = "none" /\ tree.plain = AbsentText)
    /\ [](failedAt = "rmtree"
            => /\ err \in {"NotADirectoryError", "PermissionError"}
               /\ pc \in {"cleanup", "done"}
               /\ ~BuildCalled
               /\ debFile = orig
               /\ pc = "done" => exitCode = 1)
    /\ [][(pc = "rmtree" /\ tree.debian = "none")
            => (pc' = "build" /\ err' = "none" /\ tree' = tree)]_vars
    /\ [][(pc = "rmtree" /\ pc' = "build") => tree'.debian = "none"]_vars

C14_PermissionErrorAborts ==
    /\ pc = "done"
    /\ failedAt = "rmtree"
    /\ err = "PermissionError"
    /\ exitCode = 1
    /\ ~BuildCalled

\* C15: the tree that dpkg-deb -b packs has the payload of the input archive
\* except for the changelog that was updated: the other changelog candidate
\* and a top-level entry named debian are there as they were extracted, and
\* the directory made for the plain changelog is not.
C15_PayloadKeptButChangelog ==
    (pc = "move" /\ tree.built # NoDeb)
    => /\ tree.built.debian = orig.debian
       /\ tree.built.docdir = orig.docdir
       /\ \A i \in 1..Len(ChangelogItems) :
            (ChangelogItems[i] # item \/ ~md5Touched)
            => tree.built.clog[ChangelogItems[i]] = orig.clog[ChangelogItems[i]]

\* C16: the process exits with status 0 only after dpkg-deb -b succeeded as
\* the last tool of the run and the archive it built was moved to the input
\* path: at the end of a run without an exception the file at the input path
\* is what was packed, and package.deb is no longer in the staging tree.
C16_ExitZeroOnlyAfterMove ==
    /\ (pc = "cleanup" /\ err = "none")
         => /\ calls # <<>> /\ calls[Len(calls)] = Called("build", TRUE)
            /\ debFile = Packed(tree)
            /\ tree.built = NoDeb
    /\ Succeeded
         => /\ err = "none"
            /\ calls # <<>> /\ calls[Len(calls)] = Called("build", TRUE)
            /\ debFile.kind = "deb"
            /\ debFile.control = control_text

C16_SuccessReplacedArchive ==
    /\ Succeeded
    /\ run = 1
    /\ debFile # orig
    /\ debFile.control = control_text

====
